---- MODULE Spec2Model ----
(***************************************************************************)
(* The Bhadwa game server (src/app.py): the global registry `rooms`, the   *)
(* request handlers create_room, vote, reset_votes and status, and the     *)
(* timer thread that create_room starts and that runs end_voting.          *)
(*                                                                         *)
(* The handlers take no lock.  Every handler and every timer is a thread   *)
(* of its own; one step of the model is one line's access to the shared    *)
(* registry or to a shared room record (work on locals and on fields that  *)
(* never change after creation is folded into the neighbouring step).      *)
(* Spec interleaves those steps freely; SpecSeq runs one handler or one    *)
(* timer at a time, to completion; SpecCreate runs create_room requests on *)
(* player lists of every length up to MaxLen.                              *)
(***************************************************************************)
EXTENDS Integers, Sequences, FiniteSets, TLC

VARIABLES rooms, heap, th, timers, hist

vars == <<rooms, heap, th, timers, hist>>

\* ------------------------------------------------------------- bounds
\* Player names are 1..NNames in Spec and SpecSeq; NNames + 1 is a name
\* that belongs to no room.
NNames == 2
\* Room records ever allocated (successful create_room calls).
MaxRooms == 2
\* Sum of the vote counts a run may reach (vote requests are refused
\* admission beyond it).
MaxVotes == 3
\* Longest player list handed to create_room in SpecCreate.
MaxLen == 21
\* Room records ever allocated in SpecCreate.
MaxCreated == 1
MaxRoomsConc == 1
\* Handlers and timers under way at a time in Spec.
MaxInFlight == 2

\* ------------------------------------------------- program constants
MinPlayers == 2
MaxPlayers == 20

Threads == {1, 2}

\* Keys the registry is asked for.  Missing stands for an absent JSON field
\* (data.get returns None), "" for an empty string: both are falsy.
Missing == "<None>"
RoomKeys == {"r1", "r2"}
RoomIdInputs == RoomKeys \cup {Missing, ""}

\* room["result"] before close-resolution: None.  The result strings are
\* modelled by their parts; the eliminated player's name is one part.
NoResult == <<>>
NoVotesResult == <<"No votes cast. No elimination.">>
InnocentsWin(eliminated) == <<"Bhadwa ", eliminated, " was eliminated. Innocents win!">>
BhadwaWins(eliminated) == <<eliminated, " was eliminated. Bhadwa wins.">>

\* ------------------------------------------------------------ helpers
Range(s) == {s[j] : j \in DOMAIN s}

Max(S) == CHOOSE m \in S : \A x \in S : x <= m

\* The list 1, 2, ..., n of pairwise distinct names.
Prefix(n) == [j \in 1..n |-> j]
\* The same list with its last name replaced by a copy of the first.
Dup(n) == [j \in 1..n |-> IF j = n THEN 1 ELSE j]
Lists(m) == {Prefix(n) : n \in 0..m} \cup {Dup(n) : n \in 2..m}

\* The votes dict: a sequence of <<key, count>> pairs in insertion order.
VKeys(votes) == {votes[j][1] : j \in DOMAIN votes}
VValues(votes) == {votes[j][2] : j \in DOMAIN votes}
VIndex(votes, k) == CHOOSE j \in DOMAIN votes : votes[j][1] = k
\* votes.get(k, d)
VGet(votes, k, d) == IF k \in VKeys(votes) THEN votes[VIndex(votes, k)][2] ELSE d
\* votes[k] = n
VSet(votes, k, n) ==
    IF k \in VKeys(votes)
    THEN [votes EXCEPT ![VIndex(votes, k)] = <<k, n>>]
    ELSE Append(votes, <<k, n>>)
VTotal(votes) ==
    LET RECURSIVE Sum(_)
        Sum(j) == IF j = 0 THEN 0 ELSE votes[j][2] + Sum(j - 1)
    IN Sum(Len(votes))

\* A lookup that ignores the id it is given and returns the room at r1.
LookupFirst(room_id) == rooms["r1"]

\* rooms.get(room_id): 0 stands for None.
Lookup(room_id) == IF room_id \in DOMAIN rooms THEN rooms[room_id] ELSE 0

\* ---------------------------------------------------------- responses
Resp(op, kind, code, body) == [op |-> op, kind |-> kind, code |-> code, body |-> body]
NoResp == Resp("none", "none", 0, <<>>)

\* A handler thread's locals, as they are while the thread is idle.
IdleThread ==
    [op |-> "idle", pc |-> "idle", room_id |-> "", player_names |-> <<>>,
     bhadwa |-> 0, voter |-> 0, vote_for |-> 0, room |-> 0, cnt |-> 0, i |-> 0,
     active |-> TRUE, resp |-> NoResp]

\* `return jsonify(...)`: the response is on its way to the caller.  The
\* thread still shows the request it served (its fields and the room record
\* it found); the handler's other locals are gone.
Return(t, resp) ==
    [th EXCEPT ![t].pc = "ret", ![t].resp = resp, ![t].bhadwa = 0,
               ![t].cnt = 0, ![t].i = 0, ![t].active = TRUE]

\* A timer thread's locals (the lambda's captured room_id and end_voting's).
NewTimer(room_id) ==
    [room_id |-> room_id, pc |-> "sleep", room |-> 0, max_votes |-> 0,
     n0 |-> 0, idx |-> 0, candidates |-> {}]

\* The timer thread has ended, by returning ("done") or by an exception
\* ("crashed"); its locals are gone.
Exit(k, how) == [timers EXCEPT ![k] = [NewTimer(timers[k].room_id) EXCEPT !.pc = how]]

\* History of a room record, kept for the properties only:
\*   voted[V]   whether a vote request by V has succeeded since the last
\*              successful reset_votes request (or since creation)
\*   resets     whether a reset_votes request has got hold of the record
NewHist(player_names) ==
    [voted |-> [n \in Range(player_names) |-> FALSE],
     resets |-> FALSE]

Init ==
    /\ rooms = [k \in RoomKeys |-> 0]
    /\ heap = <<>>
    /\ th = [t \in Threads |-> IdleThread]
    /\ timers = <<>>
    /\ hist = <<>>

\* Handlers that are running, plus timers that are inside end_voting.
InFlight ==
    Cardinality({t \in Threads : th[t].pc # "idle"})
    + Cardinality({k \in DOMAIN timers : timers[k].pc \notin {"sleep", "done", "crashed"}})

\* No handler is running and no timer is inside end_voting.
Quiet == InFlight = 0

\* Handlers that are at one of the places `pcs`.
At(pcs) == Cardinality({t \in Threads : th[t].pc \in pcs})

\* The response has been sent; the thread is free for the next request.
Respond(t) ==
    /\ th[t].pc = "ret"
    /\ th' = [th EXCEPT ![t] = IdleThread]
    /\ UNCHANGED <<rooms, heap, timers, hist>>

\* ------------------------------------------------------- create_room
\* The validation with `>= 20` in place of `> 20` at line 62: a list of 20
\* names is turned away.
CreateCheckTwentyRefused(room_id, player_names) ==
    IF room_id \in {Missing, ""} \/ player_names = <<>> THEN "InvalidInput"
    ELSE IF Len(player_names) < MinPlayers \/ Len(player_names) >= MaxPlayers
         THEN "InvalidPlayerCount"
    ELSE IF Cardinality(Range(player_names)) # Len(player_names)
         THEN "DuplicatePlayerName"
    ELSE "ok"

\* The validation without lines 65-66: repeated names are let through.
CreateCheckNoDuplicateTest(room_id, player_names) ==
    IF room_id \in {Missing, ""} \/ player_names = <<>> THEN "InvalidInput"
    ELSE IF Len(player_names) < MinPlayers \/ Len(player_names) > MaxPlayers
         THEN "InvalidPlayerCount"
    ELSE "ok"

\* Lines 59-66: the validation, in the order the code applies it.
CreateCheck(room_id, player_names) ==
    IF room_id \in {Missing, ""} \/ player_names = <<>> THEN "InvalidInput"
    ELSE IF Len(player_names) < MinPlayers \/ Len(player_names) > MaxPlayers
         THEN "InvalidPlayerCount"
    ELSE IF Cardinality(Range(player_names)) # Len(player_names)
         THEN "DuplicatePlayerName"
    ELSE "ok"

\* Line 69: random.choice(player_names) may return any element.
BhadwaChoices(player_names) == Range(player_names)

\* The room record with game_active False from the start.
NewRoomClosed(player_names, bhadwa) ==
    [names |-> player_names,
     is_bhadwa |-> [n \in Range(player_names) |-> n = bhadwa],
     voted_today |-> [n \in Range(player_names) |-> FALSE],
     bhadwa |-> bhadwa,
     votes |-> <<>>,
     game_active |-> FALSE,
     result |-> NoResult]

\* The room record with the comparison of line 74 turned round: every
\* player but the chosen one has is_bhadwa.
NewRoomInverted(player_names, bhadwa) ==
    [names |-> player_names,
     is_bhadwa |-> [n \in Range(player_names) |-> n # bhadwa],
     voted_today |-> [n \in Range(player_names) |-> FALSE],
     bhadwa |-> bhadwa,
     votes |-> <<>>,
     game_active |-> TRUE,
     result |-> NoResult]

\* The room record with a result from the start.
NewRoomWithResult(player_names, bhadwa) ==
    [names |-> player_names,
     is_bhadwa |-> [n \in Range(player_names) |-> n = bhadwa],
     voted_today |-> [n \in Range(player_names) |-> FALSE],
     bhadwa |-> bhadwa,
     votes |-> <<>>,
     game_active |-> TRUE,
     result |-> NoVotesResult]

\* Lines 72-78: the room record.
NewRoom(player_names, bhadwa) ==
    [names |-> player_names,
     is_bhadwa |-> [n \in Range(player_names) |-> n = bhadwa],
     voted_today |-> [n \in Range(player_names) |-> FALSE],
     bhadwa |-> bhadwa,
     votes |-> <<>>,
     game_active |-> TRUE,
     result |-> NoResult]

\* Lines 55-57: the request's fields.  A request is admitted while fewer
\* than `limit` handlers and timers are under way, and one that would
\* allocate a room record only below the cap.
StartCreate(t, room_id, player_names, cap, limit) ==
    /\ th[t].pc = "idle"
    /\ InFlight < limit
    /\ CreateCheck(room_id, player_names) = "ok"
         => Len(heap) + At({"c59", "c72"}) < cap
    /\ th' = [th EXCEPT ![t] = [IdleThread EXCEPT
                !.op = "create", !.pc = "c59",
                !.room_id = room_id, !.player_names = player_names]]
    /\ UNCHANGED <<rooms, heap, timers, hist>>

\* Lines 59-69: validation, then the choice of the bhadwa.
Create59(t) ==
    /\ th[t].pc = "c59"
    /\ LET kind == CreateCheck(th[t].room_id, th[t].player_names)
       IN IF kind # "ok"
          THEN th' = Return(t, Resp("create", kind, 400, <<>>))
          ELSE \E b \in BhadwaChoices(th[t].player_names) :
                   th' = [th EXCEPT ![t].pc = "c72", ![t].bhadwa = b]
    /\ UNCHANGED <<rooms, heap, timers, hist>>

\* A room record that no longer exists: the registry entry that held it has
\* been overwritten and no running thread holds a reference to it, so the
\* interpreter has freed it.
FreedRoom == NewRoom(<<>>, 0)

Live == {o \in DOMAIN heap : heap[o] # FreedRoom}

\* Whether a handler other than t, or a timer, holds room record o in a local.
Referenced(o, t) ==
    \/ \E u \in Threads \ {t} : th[u].room = o
    \/ \E k \in DOMAIN timers : timers[k].room = o

\* Lines 72-78: rooms[room_id] = {...}, overwriting any room at that id.
Create72(t) ==
    /\ th[t].pc = "c72"
    /\ LET old == rooms[th[t].room_id]
           free == old # 0 /\ ~Referenced(old, t)
           kept == IF free THEN [heap EXCEPT ![old] = FreedRoom] ELSE heap
           khist == IF free THEN [hist EXCEPT ![old] = NewHist(<<>>)] ELSE hist
       IN /\ heap' = Append(kept, NewRoom(th[t].player_names, th[t].bhadwa))
          /\ hist' = Append(khist, NewHist(th[t].player_names))
    /\ rooms' = [rooms EXCEPT ![th[t].room_id] = Len(heap) + 1]
    /\ th' = [th EXCEPT ![t].pc = "c81", ![t].room = Len(heap) + 1]
    /\ UNCHANGED timers

\* Lines 81-83 with the timers pending for the same id cancelled before the
\* new one is started.
Create81Cancelling(t) ==
    /\ th[t].pc = "c81"
    /\ timers' = Append([k \in DOMAIN timers |->
                            IF timers[k].room_id = th[t].room_id /\ timers[k].pc = "sleep"
                            THEN Exit(k, "done")[k] ELSE timers[k]],
                        NewTimer(th[t].room_id))
    /\ th' = Return(t, Resp("create", "ok", 200, <<th[t].bhadwa>>))
    /\ UNCHANGED <<rooms, heap, hist>>

\* Lines 81-83: the timer thread is started and the response returned.
Create81(t) ==
    /\ th[t].pc = "c81"
    /\ timers' = Append(timers, NewTimer(th[t].room_id))
    /\ th' = Return(t, Resp("create", "ok", 200, <<th[t].bhadwa>>))
    /\ UNCHANGED <<rooms, heap, hist>>

\* -------------------------------------------------------------- vote
\* The checks of lines 97-104 with the voter and the target looked up
\* before game_active is read.
VoteCheckPlayersFirst(room, voter, vote_for) ==
    IF voter \notin Range(room.names) THEN "UnknownVoter"
    ELSE IF vote_for \notin Range(room.names) THEN "UnknownTarget"
    ELSE IF ~room.game_active THEN "VotingClosed"
    ELSE "ok"

\* The checks of lines 97-104 with the target looked up before the voter.
VoteCheckTargetFirst(room, voter, vote_for) ==
    IF ~room.game_active THEN "VotingClosed"
    ELSE IF vote_for \notin Range(room.names) THEN "UnknownTarget"
    ELSE IF voter \notin Range(room.names) THEN "UnknownVoter"
    ELSE "ok"

\* Lines 97-104: the checks made on the room before the voter's flag is
\* read; players never changes after creation.
VoteCheck(room, voter, vote_for) ==
    IF ~room.game_active THEN "VotingClosed"
    ELSE IF voter \notin Range(room.names) THEN "UnknownVoter"
    ELSE IF vote_for \notin Range(room.names) THEN "UnknownTarget"
    ELSE "ok"

\* Line 106 without its test: the flag is never found set.
AlreadyVotedNever(room, voter) == FALSE

\* Line 106.
AlreadyVoted(room, voter) == room.voted_today[voter]

\* Line 110.
MarkVoted(room, voter) == [room EXCEPT !.voted_today[voter] = TRUE]

\* Line 111 with the count started afresh: room["votes"][vote_for] = 1.
NextCountFromOne(room, vote_for) == 1

\* Line 111, right-hand side: room["votes"].get(vote_for, 0) + 1.
NextCount(room, vote_for) == VGet(room.votes, vote_for, 0) + 1

\* Line 111, the store: room["votes"][vote_for] = ...
StoreCount(room, vote_for, n) == [room EXCEPT !.votes = VSet(room.votes, vote_for, n)]

\* Sum of all vote counts, plus the vote requests in flight.
VotesInPlay ==
    LET RECURSIVE Sum(_)
        Sum(o) == IF o = 0 THEN 0 ELSE VTotal(heap[o].votes) + Sum(o - 1)
    IN Sum(Len(heap)) + Cardinality({t \in Threads : th[t].op = "vote"})

\* Lines 88-91: the request's fields.
StartVote(t, room_id, voter, vote_for, limit) ==
    /\ th[t].pc = "idle"
    /\ InFlight < limit
    /\ VotesInPlay < MaxVotes
    /\ th' = [th EXCEPT ![t] = [IdleThread EXCEPT
                !.op = "vote", !.pc = "v93", !.room_id = room_id,
                !.voter = voter, !.vote_for = vote_for]]
    /\ UNCHANGED <<rooms, heap, timers, hist>>

\* Lines 93-95: room = rooms.get(room_id).
Vote93(t) ==
    /\ th[t].pc = "v93"
    /\ th' = IF Lookup(th[t].room_id) = 0
             THEN Return(t, Resp("vote", "RoomNotFound", 404, <<>>))
             ELSE [th EXCEPT ![t].pc = "v97", ![t].room = Lookup(th[t].room_id)]
    /\ UNCHANGED <<rooms, heap, timers, hist>>

\* Lines 97-104: game_active is read, then the voter and the target are
\* looked up.
Vote97(t) ==
    /\ th[t].pc = "v97"
    /\ LET kind == VoteCheck(heap[th[t].room], th[t].voter, th[t].vote_for)
       IN th' = IF kind = "VotingClosed" THEN [th EXCEPT ![t].pc = "v98"]
                ELSE IF kind = "ok" THEN [th EXCEPT ![t].pc = "v106"]
                ELSE Return(t, Resp("vote", kind, 400, <<>>))
    /\ UNCHANGED <<rooms, heap, timers, hist>>

\* Line 98: room.get("result") is read and returned.
Vote98(t) ==
    /\ th[t].pc = "v98"
    /\ th' = Return(t, Resp("vote", "VotingClosed", 200, <<heap[th[t].room].result>>))
    /\ UNCHANGED <<rooms, heap, timers, hist>>

\* Lines 106-107: the voter's flag is read.
Vote106(t) ==
    /\ th[t].pc = "v106"
    /\ th' = IF AlreadyVoted(heap[th[t].room], th[t].voter)
             THEN Return(t, Resp("vote", "AlreadyVotedToday", 400, <<>>))
             ELSE [th EXCEPT ![t].pc = "v110"]
    /\ UNCHANGED <<rooms, heap, timers, hist>>

\* Line 110: the voter's flag is set.
Vote110(t) ==
    /\ th[t].pc = "v110"
    /\ heap' = [heap EXCEPT ![th[t].room] = MarkVoted(@, th[t].voter)]
    /\ th' = [th EXCEPT ![t].pc = "v111"]
    /\ UNCHANGED <<rooms, timers, hist>>

\* Line 111, first half: the target's count is read and one is added.
Vote111(t) ==
    /\ th[t].pc = "v111"
    /\ th' = [th EXCEPT ![t].pc = "v111s",
                        ![t].cnt = NextCount(heap[th[t].room], th[t].vote_for)]
    /\ UNCHANGED <<rooms, heap, timers, hist>>

\* Line 111, second half, and line 113: the count is stored and the vote
\* reported as cast.
Vote111s(t) ==
    /\ th[t].pc = "v111s"
    /\ heap' = [heap EXCEPT ![th[t].room] = StoreCount(@, th[t].vote_for, th[t].cnt)]
    /\ hist' = [hist EXCEPT ![th[t].room].voted[th[t].voter] = TRUE]
    /\ th' = Return(t, Resp("vote", "ok", 200, <<>>))
    /\ UNCHANGED <<rooms, timers>>

\* ------------------------------------------------------- reset_votes
\* Line 129.
ClearVoted(room, name) == [room EXCEPT !.voted_today[name] = FALSE]

\* Lines 119-120.
StartReset(t, room_id, limit) ==
    /\ th[t].pc = "idle"
    /\ InFlight < limit
    /\ th' = [th EXCEPT ![t] = [IdleThread EXCEPT
                !.op = "reset", !.pc = "r121", !.room_id = room_id]]
    /\ UNCHANGED <<rooms, heap, timers, hist>>

\* Lines 121-123.
Reset121(t) ==
    /\ th[t].pc = "r121"
    /\ IF Lookup(th[t].room_id) = 0
       THEN /\ th' = Return(t, Resp("reset", "RoomNotFound", 404, <<>>))
            /\ hist' = hist
       ELSE /\ th' = [th EXCEPT ![t].pc = "r125", ![t].room = Lookup(th[t].room_id)]
            /\ hist' = [hist EXCEPT ![Lookup(th[t].room_id)].resets = TRUE]
    /\ UNCHANGED <<rooms, heap, timers>>

\* Line 125: game_active is read.
Reset125(t) ==
    /\ th[t].pc = "r125"
    /\ th' = IF ~heap[th[t].room].game_active
             THEN [th EXCEPT ![t].pc = "r126"]
             ELSE [th EXCEPT ![t].pc = "r128", ![t].i = 1]
    /\ UNCHANGED <<rooms, heap, timers, hist>>

\* Line 126.
Reset126(t) ==
    /\ th[t].pc = "r126"
    /\ th' = Return(t, Resp("reset", "VotingClosed", 200, <<heap[th[t].room].result>>))
    /\ UNCHANGED <<rooms, heap, timers, hist>>

\* Lines 128-131: one pass of the loop over players.values(); after the
\* last player the response is returned.
Reset128(t) ==
    /\ th[t].pc = "r128"
    /\ LET o == th[t].room
           last == th[t].i = Len(heap[o].names)
       IN /\ heap' = [heap EXCEPT ![o] = ClearVoted(@, heap[o].names[th[t].i])]
          /\ th' = IF last THEN Return(t, Resp("reset", "ok", 200, <<>>))
                   ELSE [th EXCEPT ![t].i = @ + 1]
          /\ hist' = IF last
                     THEN [hist EXCEPT ![o].voted = [n \in DOMAIN @ |-> FALSE]]
                     ELSE hist
    /\ UNCHANGED <<rooms, timers>>

\* ------------------------------------------------------------ status
\* Line 136.
StartStatus(t, room_id, limit) ==
    /\ th[t].pc = "idle"
    /\ InFlight < limit
    /\ th' = [th EXCEPT ![t] = [IdleThread EXCEPT
                !.op = "status", !.pc = "s137", !.room_id = room_id]]
    /\ UNCHANGED <<rooms, heap, timers, hist>>

\* Lines 137-139.
Status137(t) ==
    /\ th[t].pc = "s137"
    /\ th' = IF Lookup(th[t].room_id) = 0
             THEN Return(t, Resp("status", "RoomNotFound", 404, <<>>))
             ELSE [th EXCEPT ![t].pc = "s145", ![t].room = Lookup(th[t].room_id)]
    /\ UNCHANGED <<rooms, heap, timers, hist>>

\* Lines 142-145: players, bhadwa and the votes dict (by reference) are
\* taken, and game_active is read.
Status145(t) ==
    /\ th[t].pc = "s145"
    /\ th' = [th EXCEPT ![t].pc = "s146", ![t].active = heap[th[t].room].game_active]
    /\ UNCHANGED <<rooms, heap, timers, hist>>

\* Lines 146-148: result is read and the response returned.
Status146(t) ==
    /\ th[t].pc = "s146"
    /\ th' = Return(t, Resp("status", "ok", 200,
                  <<th[t].active, heap[th[t].room].result>>))
    /\ UNCHANGED <<rooms, heap, timers, hist>>

\* -------------------------------------------------------- end_voting
\* Line 35: max(votes.values()).
MaxVotesOf(votes) == Max(VValues(votes))

\* Line 36: whether the entry the iterator is at joins the candidates.
IsCandidate(entry, max_votes) == entry[2] = max_votes

\* Line 39: random.choice(candidates) may return any element.
EliminatedChoices(candidates) == candidates

\* Lines 42-45 with the comparison turned round.
ResultForInverted(room, eliminated) ==
    IF eliminated # room.bhadwa THEN InnocentsWin(eliminated) ELSE BhadwaWins(eliminated)

\* Lines 42-45.
ResultFor(room, eliminated) ==
    IF eliminated = room.bhadwa THEN InnocentsWin(eliminated) ELSE BhadwaWins(eliminated)

\* Line 81's sleep is over; line 24: room = rooms.get(room_id).
End24(k, limit) ==
    /\ k \in DOMAIN timers
    /\ timers[k].pc = "sleep"
    /\ InFlight < limit
    /\ timers' = IF Lookup(timers[k].room_id) = 0
                 THEN Exit(k, "done")
                 ELSE [timers EXCEPT ![k].pc = "e25", ![k].room = Lookup(timers[k].room_id)]
    /\ UNCHANGED <<rooms, heap, th, hist>>

\* Lines 25-26: game_active is read.
End25(k) ==
    /\ k \in DOMAIN timers
    /\ timers[k].pc = "e25"
    /\ timers' = IF ~heap[timers[k].room].game_active
                 THEN Exit(k, "done")
                 ELSE [timers EXCEPT ![k].pc = "e27"]
    /\ UNCHANGED <<rooms, heap, th, hist>>

\* Line 27.
End27(k) ==
    /\ k \in DOMAIN timers
    /\ timers[k].pc = "e27"
    /\ heap' = [heap EXCEPT ![timers[k].room].game_active = FALSE]
    /\ timers' = [timers EXCEPT ![k].pc = "e30"]
    /\ UNCHANGED <<rooms, th, hist>>

\* Lines 29-30: votes is the room's dict itself; `not votes` reads its size.
End30(k) ==
    /\ k \in DOMAIN timers
    /\ timers[k].pc = "e30"
    /\ timers' = IF heap[timers[k].room].votes = <<>>
                 THEN [timers EXCEPT ![k].pc = "e31"]
                 ELSE [timers EXCEPT ![k].pc = "e35"]
    /\ UNCHANGED <<rooms, heap, th, hist>>

\* Lines 31-32.
End31(k) ==
    /\ k \in DOMAIN timers
    /\ timers[k].pc = "e31"
    /\ heap' = [heap EXCEPT ![timers[k].room].result = NoVotesResult]
    /\ timers' = Exit(k, "done")
    /\ UNCHANGED <<rooms, th, hist>>

\* Line 35: max() runs over the dict's values in one go.
End35(k) ==
    /\ k \in DOMAIN timers
    /\ timers[k].pc = "e35"
    /\ timers' = [timers EXCEPT ![k].pc = "e36",
                                ![k].max_votes = MaxVotesOf(heap[timers[k].room].votes)]
    /\ UNCHANGED <<rooms, heap, th, hist>>

\* Line 36: the comprehension.  Its first step creates the iterator, which
\* remembers the dict's size; every later step is one next() on it, which
\* raises RuntimeError if the size has changed and otherwise yields the next
\* entry or ends the loop.  Line 39 follows the loop: random.choice raises
\* IndexError on an empty list.  An exception ends the timer thread.
End36(k) ==
    /\ k \in DOMAIN timers
    /\ timers[k].pc = "e36"
    /\ LET tm == timers[k]
           votes == heap[tm.room].votes
       IN timers' =
            IF tm.idx = 0
            THEN [timers EXCEPT ![k].n0 = Len(votes), ![k].idx = 1]
            ELSE IF Len(votes) # tm.n0
            THEN Exit(k, "crashed")
            ELSE IF tm.idx <= tm.n0
            THEN [timers EXCEPT ![k].idx = @ + 1,
                                ![k].candidates =
                                    IF IsCandidate(votes[tm.idx], tm.max_votes)
                                    THEN @ \cup {votes[tm.idx][1]} ELSE @]
            ELSE IF tm.candidates = {}
            THEN Exit(k, "crashed")
            ELSE [timers EXCEPT ![k].pc = "e42"]
    /\ UNCHANGED <<rooms, heap, th, hist>>

\* Lines 39-45: the eliminated player is drawn and the result stored.
End42(k) ==
    /\ k \in DOMAIN timers
    /\ timers[k].pc = "e42"
    /\ \E e \in EliminatedChoices(timers[k].candidates) :
         /\ heap' = [heap EXCEPT ![timers[k].room].result = ResultFor(heap[timers[k].room], e)]
         /\ timers' = Exit(k, "done")
    /\ UNCHANGED <<rooms, th, hist>>

\* ---------------------------------------------------- specifications
\* A request arrives.  A create_room request draws its room id from ids and
\* its player list from lists; the other requests draw the room they ask for
\* from keys, and a vote request its voter and target from names.
Start(t, ids, lists, keys, names, cap, limit) ==
    \/ \E id \in ids, player_names \in lists : StartCreate(t, id, player_names, cap, limit)
    \/ \E id \in keys, v \in names, f \in names : StartVote(t, id, v, f, limit)
    \/ \E id \in keys : StartReset(t, id, limit)
    \/ \E id \in keys : StartStatus(t, id, limit)

Step(t) ==
    \/ Create59(t) \/ Create72(t) \/ Create81(t)
    \/ Vote93(t) \/ Vote97(t) \/ Vote98(t) \/ Vote106(t)
    \/ Vote110(t) \/ Vote111(t) \/ Vote111s(t)
    \/ Reset121(t) \/ Reset125(t) \/ Reset126(t) \/ Reset128(t)
    \/ Status137(t) \/ Status145(t) \/ Status146(t)
    \/ Respond(t)

TimerStep(k) ==
    \/ End25(k) \/ End27(k) \/ End30(k) \/ End31(k)
    \/ End35(k) \/ End36(k) \/ End42(k)

\* One timer thread per room record ever allocated.
TimerIds == 1..MaxRooms

\* Request handlers and timer threads on one room id, their steps freely
\* interleaved; at most MaxInFlight of them are under way at a time.
Next ==
    \/ \E t \in Threads :
           Start(t, {"r1"}, {Prefix(NNames)}, {"r1"}, 1..NNames, MaxRoomsConc, MaxInFlight) \/ Step(t)
    \/ \E k \in TimerIds : End24(k, MaxInFlight) \/ TimerStep(k)

Spec == Init /\ [][Next]_vars

\* One handler or one timer at a time, each run to completion; the requests
\* include malformed create_room requests, votes that name a stranger, and
\* requests for r1 while no room is registered there.
SeqNext ==
    \/ Start(1, {"", "r1"}, Lists(NNames), {"r1"}, 1..(NNames + 1), MaxRooms, 1) \/ Step(1)
    \/ \E k \in TimerIds : End24(k, 1) \/ TimerStep(k)

SpecSeq == Init /\ [][SeqNext]_vars

\* Request handlers for r1 one at a time, each started while nothing else
\* is under way; the timers of the rooms registered at r1 one after the
\* other fire whenever fewer than MaxInFlight threads are under way, so two
\* timers' steps interleave with each other.
TimersNext ==
    \/ Start(1, {"r1"}, {Prefix(NNames)}, {"r1"}, 1..NNames, MaxRooms, 1) \/ Step(1)
    \/ \E k \in TimerIds : End24(k, MaxInFlight) \/ TimerStep(k)

SpecTimers == Init /\ [][TimersNext]_vars

\* One handler or one timer at a time, each run to completion, on the two
\* room ids of RoomKeys: rooms of the smallest size create_room admits, and
\* as many room records as there are ids.
TwoRoomsNext ==
    \/ Start(1, RoomKeys, {Prefix(MinPlayers)}, RoomKeys, 1..MinPlayers,
             Cardinality(RoomKeys), 1) \/ Step(1)
    \/ \E k \in TimerIds : End24(k, 1) \/ TimerStep(k)

SpecTwoRooms == Init /\ [][TwoRoomsNext]_vars

\* create_room requests alone, one at a time, on player lists of every
\* length up to MaxLen.
CreateNext ==
    \/ \E id \in {Missing, "", "r1"}, player_names \in Lists(MaxLen) :
           StartCreate(1, id, player_names, MaxCreated, 1)
    \/ Create59(1) \/ Create72(1) \/ Create81(1) \/ Respond(1)

SpecCreate == Init /\ [][CreateNext]_vars

\* ============================================================ claims
\* The room record a running vote or reset_votes handler works on: the one
\* it has looked up, or the one its lookup is about to find (0: none).
RoomOf(t) ==
    IF th[t].pc \in {"v93", "r121"} THEN Lookup(th[t].room_id) ELSE th[t].room

\* Thread t's vote handler returns in this step.
VoteReturns(t) == th[t].op = "vote" /\ th[t].pc # "ret" /\ th'[t].pc = "ret"

\* Thread t's vote handler returns in this step; it found room record o
\* Open, and its voter is a player of o who has voted successfully since
\* the last successful reset_votes.
SecondVote(t, o) ==
    /\ VoteReturns(t)
    /\ o # 0
    /\ o = RoomOf(t)
    /\ heap[o].game_active
    /\ th[t].voter \in Range(heap[o].names)
    /\ hist[o].voted[th[t].voter]

\* C1, as stated: on an Open room, a vote request by a voter who has voted
\* successfully since the last successful reset_votes fails with
\* AlreadyVotedToday, whatever target it names, and changes no vote count.
C1_AsStated ==
    [][\A t \in Threads : \A o \in DOMAIN heap :
          SecondVote(t, o)
          => /\ th'[t].resp.kind = "AlreadyVotedToday"
             /\ heap'[o].votes = heap[o].votes]_vars

\* C1, amended: such a request fails and changes no vote count; the error
\* is AlreadyVotedToday when the target is a player of the room and
\* UnknownTarget when it is not.  A request by a player who has not voted
\* since the last successful reset_votes (or since creation), for a target
\* that is a player, succeeds.
C1_OneVotePerDay ==
    [][\A t \in Threads : \A o \in DOMAIN heap :
          /\ SecondVote(t, o)
             => /\ th'[t].resp.kind =
                     IF th[t].vote_for \in Range(heap[o].names)
                     THEN "AlreadyVotedToday" ELSE "UnknownTarget"
                /\ heap'[o].votes = heap[o].votes
          /\ ( /\ VoteReturns(t)
               /\ o # 0
               /\ o = RoomOf(t)
               /\ heap[o].game_active
               /\ th[t].voter \in Range(heap[o].names)
               /\ th[t].vote_for \in Range(heap[o].names)
               /\ ~hist[o].voted[th[t].voter] )
             => th'[t].resp.kind = "ok"]_vars

\* A vote request by a player, for a player, has just been refused with
\* AlreadyVotedToday on an Open room that has been reset since its creation
\* and holds two votes or more.
C1_Witness ==
    \E t \in Threads : \E o \in DOMAIN heap :
        /\ th[t].pc = "ret"
        /\ th[t].op = "vote"
        /\ th[t].room = o
        /\ th[t].resp.kind = "AlreadyVotedToday"
        /\ hist[o].voted[th[t].voter]
        /\ hist[o].resets
        /\ heap[o].game_active
        /\ VTotal(heap[o].votes) >= 2

\* The entry of key k in a votes dict, 0 when there is none.
Count(votes, k) == VGet(votes, k, 0)

\* Thread t's vote handler returns success in this step, on room record o.
VoteSucceeds(t, o) ==
    VoteReturns(t) /\ th'[t].resp.kind = "ok" /\ th[t].room = o

\* C2: a room record starts with no votes entry; a successful vote request
\* that names T adds exactly one to votes[T] (creating the entry at 1) and
\* leaves every other entry as it was; no other step changes votes; no
\* entry is ever 0.  So votes[T] is the number of successful vote requests
\* that named T since the record was created.
C2_TallyExact ==
    /\ [](\A o \in DOMAIN heap : \A j \in DOMAIN heap[o].votes : heap[o].votes[j][2] >= 1)
    /\ [][\A o \in DOMAIN heap' :
            IF o \notin DOMAIN heap
            THEN heap'[o].votes = <<>>
            ELSE IF \E t \in Threads : VoteSucceeds(t, o)
            THEN \E t \in Threads :
                   /\ VoteSucceeds(t, o)
                   /\ Count(heap'[o].votes, th[t].vote_for)
                        = Count(heap[o].votes, th[t].vote_for) + 1
                   /\ VKeys(heap'[o].votes) = VKeys(heap[o].votes) \cup {th[t].vote_for}
                   /\ \A n \in VKeys(heap[o].votes) \ {th[t].vote_for} :
                        Count(heap'[o].votes, n) = Count(heap[o].votes, n)
            ELSE heap'[o] = FreedRoom \/ heap'[o].votes = heap[o].votes]_vars

\* Two different voters have voted for the same target on a room that has
\* never been reset, and its entry is 2.
C2_Witness ==
    \E o \in DOMAIN heap : \E n \in VKeys(heap[o].votes) :
        /\ Quiet
        /\ ~hist[o].resets
        /\ Cardinality({v \in DOMAIN hist[o].voted : hist[o].voted[v]}) = 2
        /\ Count(heap[o].votes, n) = 2

\* C3: vote requests handled concurrently leave the room as some serial
\* order of them would: every vote reported as cast has added one to its
\* target's count, and on a room that no reset_votes request has touched no
\* voter has two votes reported as cast.
C3_Serializable ==
    [][\A t \in Threads : \A o \in DOMAIN heap :
          VoteSucceeds(t, o)
          => /\ Count(heap'[o].votes, th[t].vote_for)
                  = Count(heap[o].votes, th[t].vote_for) + 1
             /\ ~hist'[o].resets => ~hist[o].voted[th[t].voter]]_vars

\* C4: once a room record's game_active is False no step changes its votes
\* or a voted_today flag, and a result once stored never changes (unless a
\* create_room overwrites the id and the record is gone).
C4_ClosedIsImmutable ==
    [][\A o \in DOMAIN heap :
          (~heap[o].game_active /\ heap'[o] # FreedRoom)
          => /\ heap'[o].votes = heap[o].votes
             /\ heap'[o].voted_today = heap[o].voted_today
             /\ heap[o].result # NoResult => heap'[o].result = heap[o].result]_vars

\* C5: a vote or reset_votes request on a room record whose game_active is
\* False changes nothing in the registry or in any room record, and returns
\* VotingClosed together with the record's result, which is a result string;
\* the voter and the target play no part.
C5_ClosedRejects ==
    [][\A t \in Threads :
          ( /\ th[t].op \in {"vote", "reset"}
            /\ th[t].pc # "ret"
            /\ RoomOf(t) # 0
            /\ ~heap[RoomOf(t)].game_active )
          => /\ heap' = heap
             /\ rooms' = rooms
             /\ th'[t].pc = "ret"
                  => /\ th'[t].resp.kind = "VotingClosed"
                     /\ th'[t].resp.body = <<heap[RoomOf(t)].result>>
                     /\ heap[RoomOf(t)].result # NoResult]_vars

\* A vote request that names a stranger as voter has been refused with
\* VotingClosed and the stored result.
C5_Witness ==
    \E t \in Threads :
        /\ th[t].pc = "ret"
        /\ th[t].op = "vote"
        /\ th[t].room # 0
        /\ th[t].voter \notin Range(heap[th[t].room].names)
        /\ th[t].resp.kind = "VotingClosed"
        /\ th[t].resp.body = <<heap[th[t].room].result>>
        /\ th[t].resp.body # <<NoResult>>

\* C6, as stated: for every room id, once the room registered at it has
\* game_active False, no step makes the room registered at it Open.
C6_AsStated ==
    [][\A id \in RoomKeys :
          (rooms[id] # 0 /\ ~heap[rooms[id]].game_active)
          => ~heap'[rooms'[id]].game_active]_vars

\* C6, amended: a room record is created with game_active True, and once
\* its game_active is False it stays False for as long as the record
\* exists; the room registered at an id goes from Closed back to Open only
\* by a create_room request that overwrites that id with a new record.
C6_NeverReopens ==
    [][/\ \A o \in DOMAIN heap' \ DOMAIN heap : heap'[o].game_active
       /\ \A o \in DOMAIN heap :
             ~heap[o].game_active => (heap'[o] = FreedRoom \/ ~heap'[o].game_active)
       /\ \A id \in RoomKeys :
             ( /\ rooms[id] # 0
               /\ ~heap[rooms[id]].game_active
               /\ heap'[rooms'[id]].game_active )
             => \E t \in Threads :
                  /\ th[t].pc = "c72"
                  /\ th'[t].pc = "c81"
                  /\ th[t].room_id = id
                  /\ rooms'[id] \notin DOMAIN heap]_vars

\* The first room at r1 was closed by its timer and then overwritten: the
\* room now registered at r1 is the second record, and it is Open.
C6_Witness ==
    /\ Len(heap) = 2
    /\ Len(timers) >= 1
    /\ timers[1].pc = "done"
    /\ rooms["r1"] = 2
    /\ heap[2].game_active

\* C7: in every room record exactly one player has is_bhadwa, that player
\* is the one the bhadwa field names, and the name is one of the player
\* names of the create_room request; no later step changes either field.
C7_OneBhadwa ==
    /\ [](\A o \in Live :
            /\ heap[o].bhadwa \in Range(heap[o].names)
            /\ {n \in Range(heap[o].names) : heap[o].is_bhadwa[n]} = {heap[o].bhadwa})
    /\ [][/\ \A o \in DOMAIN heap' \ DOMAIN heap : \E t \in Threads :
                /\ th[t].pc = "c72"
                /\ heap'[o].bhadwa \in Range(th[t].player_names)
                /\ Range(heap'[o].names) = Range(th[t].player_names)
          /\ \A o \in DOMAIN heap :
                heap'[o] # FreedRoom
                => /\ heap'[o].bhadwa = heap[o].bhadwa
                   /\ heap'[o].is_bhadwa = heap[o].is_bhadwa]_vars

\* A room whose bhadwa is its second player has been voted in, reset and
\* closed.
C7_Witness ==
    \E o \in Live :
        /\ heap[o].bhadwa = heap[o].names[2]
        /\ heap[o].votes # <<>>
        /\ hist[o].resets
        /\ heap[o].result # NoResult

\* Thread t's create_room handler leaves its validation in this step.
Validated(t) == th[t].pc = "c59" /\ th'[t].pc # "c59"

Distinct(player_names) == \A i, j \in DOMAIN player_names : i # j => player_names[i] # player_names[j]

\* C8: a create_room request with fewer than 2 or more than 20 player names
\* fails, registering no room and starting no timer; one with 2 to 20
\* pairwise distinct names and a non-empty room id registers a room,
\* starts a timer and succeeds.
C8_PlayerCount ==
    [][\A t \in Threads :
          /\ (Validated(t) /\ Len(th[t].player_names) \notin 2..20)
             => /\ th'[t].pc = "ret"
                /\ th'[t].resp.kind \in {"InvalidInput", "InvalidPlayerCount"}
                /\ th'[t].resp.code = 400
                /\ UNCHANGED <<rooms, heap, timers>>
          /\ ( /\ Validated(t)
               /\ Len(th[t].player_names) \in 2..20
               /\ th[t].room_id \notin {Missing, ""}
               /\ Distinct(th[t].player_names) )
             => th'[t].pc = "c72"
          /\ (th[t].pc = "c72" /\ th'[t].pc # "c72")
             => /\ th'[t].pc = "c81"
                /\ rooms'[th[t].room_id] \notin DOMAIN heap
                /\ heap'[rooms'[th[t].room_id]].names = th[t].player_names
          /\ (th[t].pc = "c81" /\ th'[t].pc # "c81")
             => /\ th'[t].pc = "ret"
                /\ th'[t].resp.kind = "ok"
                /\ Len(timers') = Len(timers) + 1
                /\ timers'[Len(timers')].room_id = th[t].room_id]_vars

\* A room of 20 players is registered, and a request with 21 names has
\* just been refused.
C8_Witness ==
    \E t \in Threads :
        /\ th[t].pc = "ret"
        /\ Len(th[t].player_names) = 21
        /\ th[t].resp.kind = "InvalidPlayerCount"
        /\ rooms["r1"] # 0
        /\ Len(heap[rooms["r1"]].names) = 20
        /\ Len(timers) = 1

\* C9, as stated: a create_room request with 2 to 20 names, two of them
\* equal, fails with DuplicatePlayerName, leaves the registry as it was and
\* starts no timer.
C9_AsStated ==
    [][\A t \in Threads :
          ( /\ Validated(t)
            /\ Len(th[t].player_names) \in 2..20
            /\ ~Distinct(th[t].player_names) )
          => /\ th'[t].pc = "ret"
             /\ th'[t].resp.kind = "DuplicatePlayerName"
             /\ UNCHANGED <<rooms, heap, timers>>]_vars

\* C9, amended: the same for a request whose room id is present and not
\* empty; with a missing or empty room id the request fails with
\* InvalidInput instead, and changes as little.
C9_Duplicates ==
    [][\A t \in Threads :
          ( /\ Validated(t)
            /\ Len(th[t].player_names) \in 2..20
            /\ ~Distinct(th[t].player_names) )
          => /\ th'[t].pc = "ret"
             /\ th'[t].resp.kind =
                  IF th[t].room_id \in {Missing, ""}
                  THEN "InvalidInput" ELSE "DuplicatePlayerName"
             /\ UNCHANGED <<rooms, heap, timers>>]_vars

\* A request for r1 with a repeated name has just been refused with
\* DuplicatePlayerName while a room is registered at r1.
C9_Witness ==
    \E t \in Threads :
        /\ th[t].pc = "ret"
        /\ th[t].room_id = "r1"
        /\ ~Distinct(th[t].player_names)
        /\ th[t].resp.kind = "DuplicatePlayerName"
        /\ rooms["r1"] # 0
        /\ heap[rooms["r1"]].names # th[t].player_names

\* The players whose entry in votes is the largest one.
Leaders(votes) == {n \in VKeys(votes) : Count(votes, n) = Max(VValues(votes))}

\* C10: when close-resolution stores the result of a room with a non-empty
\* votes dict, the player it names as eliminated is one whose entry in
\* votes is the largest.
C10_LeaderEliminated ==
    [][\A k \in DOMAIN timers :
          (timers[k].pc = "e42" /\ timers'[k].pc = "done")
          => LET room == heap[timers[k].room]
             IN \E e \in Leaders(room.votes) :
                  heap'[timers[k].room].result = ResultFor(room, e)]_vars

\* Timer k's end_voting stores a result in this step (line 31, 43 or 45).
StoresResult(k) ==
    /\ timers[k].pc \in {"e31", "e42"}
    /\ timers'[k].pc = "done"

\* C11: close-resolution stores "No votes cast. No elimination." exactly
\* when the votes dict of the room it closes is empty: with votes empty it
\* stores that result, on a record whose game_active is False, and names no
\* player; with votes not empty it stores another result; and no step but
\* close-resolution's stores that result.
C11_NoVotesNoElimination ==
    [][/\ \A k \in DOMAIN timers :
             StoresResult(k)
             => LET o == timers[k].room
                IN /\ ~heap'[o].game_active
                   /\ heap'[o].result = NoVotesResult <=> heap[o].votes = <<>>
       /\ \A o \in DOMAIN heap :
             (heap'[o].result = NoVotesResult /\ heap[o].result # NoVotesResult)
             => \E k \in DOMAIN timers : StoresResult(k) /\ timers[k].room = o]_vars

ResetSteps(t) == th[t].op = "reset" /\ th[t].pc # "ret" /\ th'[t] # th[t]

\* Thread t's reset_votes handler returns success in this step.
ResetSucceeds(t) == ResetSteps(t) /\ th'[t].pc = "ret" /\ th'[t].resp.kind = "ok"

\* C13: a step of a reset_votes handler changes no room record's votes,
\* bhadwa, is_bhadwa flags, game_active or result; the handler sets
\* voted_today False for one player after the other and returns success
\* only when it has done so for the last one; and no step removes an entry
\* of votes or makes one smaller, so the counts keep accumulating across
\* days.
C13_ResetKeepsVotes ==
    [][/\ \A t \in Threads :
             ResetSteps(t)
             => \A o \in DOMAIN heap :
                  /\ heap'[o].votes = heap[o].votes
                  /\ heap'[o].bhadwa = heap[o].bhadwa
                  /\ heap'[o].is_bhadwa = heap[o].is_bhadwa
                  /\ heap'[o].game_active = heap[o].game_active
                  /\ heap'[o].result = heap[o].result
       /\ \A t \in Threads :
             (ResetSteps(t) /\ th[t].pc = "r128")
             => LET names == heap[th[t].room].names
                IN /\ ~heap'[th[t].room].voted_today[names[th[t].i]]
                   /\ IF th[t].i < Len(names)
                      THEN th'[t].pc = "r128" /\ th'[t].i = th[t].i + 1
                      ELSE ResetSucceeds(t)
       /\ \A t \in Threads :
             ResetSucceeds(t) => th[t].pc = "r128" /\ th[t].i = Len(heap[th[t].room].names)
       /\ \A o \in DOMAIN heap :
             heap'[o] # FreedRoom
             => \A n \in VKeys(heap[o].votes) :
                  Count(heap'[o].votes, n) >= Count(heap[o].votes, n)]_vars

\* Timer k's end_voting, having set game_active False, ends in this step.
ClosingEnds(k) ==
    /\ timers[k].pc \in {"e30", "e31", "e35", "e36", "e42"}
    /\ timers'[k].pc \in {"done", "crashed"}

\* C14: close-resolution has no failing path: a timer that has fired on an
\* Open room ends by returning, never by an exception, and when it ends
\* the room it closed has game_active False and a result that is not None.
\* (With every timer firing and running on, each room that a timer finds
\* Open then ends Closed with a result.)
C14_ClosesWithResult ==
    [][\A k \in DOMAIN timers :
          ClosingEnds(k)
          => /\ timers'[k].pc = "done"
             /\ ~heap'[timers[k].room].game_active
             /\ heap'[timers[k].room].result # NoResult]_vars

\* Timer k's end_voting takes this step.
TimerSteps(k) == k \in DOMAIN timers' /\ (k \in DOMAIN timers => timers'[k] # timers[k])

\* C15: a timer that finds no room at its id (line 24) or finds the room's
\* game_active False (line 25) returns and changes nothing; and no step of
\* a timer changes a result that has been stored, so the result of the
\* first close is never replaced by a later fire.
C15_LaterFireIsNoOp ==
    [][\A k \in DOMAIN timers :
          /\ ( \/ timers[k].pc = "sleep" /\ timers'[k].pc # "sleep"
                    /\ Lookup(timers[k].room_id) = 0
               \/ timers[k].pc = "e25" /\ timers'[k].pc # "e25"
                    /\ ~heap[timers[k].room].game_active )
             => /\ timers'[k].pc = "done"
                /\ UNCHANGED <<rooms, heap>>
          /\ TimerSteps(k)
             => \A o \in DOMAIN heap :
                  heap[o].result # NoResult => heap'[o].result = heap[o].result]_vars

\* C16: create_room cancels no timer: a handler's step leaves every timer
\* that exists as it is, and a successful create_room adds one timer for
\* its id.  A timer that fires and returns leaves the room registered at
\* its id with game_active False, whichever create_room call started that
\* timer; and a timer that finds that room's game_active False returns and
\* changes nothing.
C16_StaleTimerCloses ==
    [][/\ \A k \in DOMAIN timers :
             (th' # th) => (k \in DOMAIN timers' /\ timers'[k] = timers[k])
       /\ \A t \in Threads :
             (th[t].pc = "c81" /\ th'[t].pc # "c81")
             => /\ Len(timers') = Len(timers) + 1
                /\ timers'[Len(timers')].room_id = th[t].room_id
                /\ timers'[Len(timers')].pc = "sleep"
       /\ \A k \in DOMAIN timers :
             (timers[k].pc # "done" /\ timers'[k].pc = "done")
             => /\ rooms[timers[k].room_id] # 0
                /\ ~heap'[rooms[timers[k].room_id]].game_active
       /\ \A k \in DOMAIN timers :
             (timers[k].pc = "e25" /\ timers'[k].pc # "e25"
                /\ ~heap[timers[k].room].game_active)
             => timers'[k].pc = "done" /\ UNCHANGED <<rooms, heap>>]_vars

\* The id r1 has been reused while the first room's timer was pending; that
\* timer has since fired and closed the second room, whose own timer has not
\* fired yet.
C16_Witness ==
    /\ Len(heap) = 2
    /\ Len(timers) = 2
    /\ rooms["r1"] = 2
    /\ heap[1] = FreedRoom
    /\ timers[1].room_id = "r1" /\ timers[1].pc = "done"
    /\ timers[2].room_id = "r1" /\ timers[2].pc = "sleep"
    /\ ~heap[2].game_active
    /\ heap[2].result # NoResult

\* C17: a room record whose game_active is True has result None; a record
\* is created with result None; and result is changed only by a step of
\* end_voting, on a record whose game_active is already False.
C17_OpenHasNoResult ==
    /\ [](\A o \in Live : heap[o].game_active => heap[o].result = NoResult)
    /\ [][/\ \A o \in DOMAIN heap' \ DOMAIN heap : heap'[o].result = NoResult
          /\ \A o \in DOMAIN heap :
                (heap'[o] # FreedRoom /\ heap'[o].result # heap[o].result)
                => /\ ~heap[o].game_active
                   /\ \E k \in DOMAIN timers :
                        /\ timers[k].room = o
                        /\ timers[k].pc \in {"e31", "e42"}
                        /\ timers'[k].pc = "done"
                   /\ th' = th]_vars

\* A room that has votes and has been reset is still Open, with no result,
\* while the room registered before it at the same id was closed.
C17_Witness ==
    \E o \in Live :
        /\ o > 1
        /\ heap[o].game_active
        /\ heap[o].result = NoResult
        /\ heap[o].votes # <<>>
        /\ hist[o].resets
        /\ \E k \in DOMAIN timers : timers[k].pc = "done"

\* This step is taken by a handler of a request for room id `id`, or by a
\* timer started for `id`.
ActsOn(id) ==
    \/ \E t \in Threads :
         /\ th'[t] # th[t]
         /\ id = IF th[t].pc = "idle" THEN th'[t].room_id ELSE th[t].room_id
    \/ \E k \in DOMAIN timers : timers'[k] # timers[k] /\ timers[k].room_id = id

\* C18: a step of a create_room, vote, reset_votes or status handler for
\* room id A, or of a timer started for A, leaves the registry entry of
\* every other id as it is and changes nothing in the room registered there.
C18_RoomsIndependent ==
    [][\A A \in RoomKeys :
          ActsOn(A)
          => \A B \in RoomKeys \ {A} :
               /\ rooms'[B] = rooms[B]
               /\ rooms[B] # 0 => heap'[rooms[B]] = heap[rooms[B]]]_vars

\* Rooms are registered at r1 and at r2; the one at r1 has been voted in and
\* closed with a player eliminated, the one at r2 is Open, with one vote
\* cast.
C18_Witness ==
    /\ rooms["r1"] # 0
    /\ rooms["r2"] # 0
    /\ ~heap[rooms["r1"]].game_active
    /\ heap[rooms["r1"]].result \notin {NoResult, NoVotesResult}
    /\ heap[rooms["r2"]].game_active
    /\ VTotal(heap[rooms["r2"]].votes) = 1
    /\ Quiet

\* C19: a response that shows a room as Closed carries a result that is
\* not None: a vote or reset_votes response of kind VotingClosed, and a
\* status response whose game_active is False.
C19_ClosedShowsResult ==
    \A t \in Threads :
        th[t].pc = "ret"
        => /\ (th[t].op \in {"vote", "reset"} /\ th[t].resp.kind = "VotingClosed")
                => th[t].resp.body # <<NoResult>>
           /\ (th[t].op = "status" /\ th[t].resp.kind = "ok" /\ ~th[t].resp.body[1])
                => th[t].resp.body[2] # NoResult

\* The first of vote's checks that fails for a request that is about to
\* look its room up, as the claim orders them; "ok" when none fails.
FirstFailing(t) ==
    LET o == Lookup(th[t].room_id)
    IN IF o = 0 THEN "RoomNotFound"
       ELSE IF ~heap[o].game_active THEN "VotingClosed"
       ELSE IF th[t].voter \notin Range(heap[o].names) THEN "UnknownVoter"
       ELSE IF th[t].vote_for \notin Range(heap[o].names) THEN "UnknownTarget"
       ELSE IF heap[o].voted_today[th[t].voter] THEN "AlreadyVotedToday"
       ELSE "ok"

\* C20: a vote request reports the first check that fails, in the order
\* RoomNotFound, VotingClosed, UnknownVoter, UnknownTarget,
\* AlreadyVotedToday, and succeeds when none fails; a request that fails
\* changes neither the registry nor any room record.  (The handler runs
\* alone from its lookup to its return, so the checks are those of the
\* state in which it looks the room up.)
C20_FirstFailingCheck ==
    [][\A t \in Threads :
          /\ (th[t].op = "vote" /\ th[t].pc \in {"v93", "v97", "v98", "v106"})
             => /\ th'[t].pc = "ret" => th'[t].resp.kind = FirstFailing(t)
                /\ th'[t].pc = "v110" => FirstFailing(t) = "ok"
                /\ FirstFailing(t) # "ok" => UNCHANGED <<rooms, heap>>
          /\ VoteReturns(t)
             => (th'[t].resp.kind = "ok" <=> th[t].pc = "v111s")]_vars

\* On an Open room a vote by a player who has already voted, for a
\* stranger, has just been refused with UnknownTarget.
C20_Witness ==
    \E t \in Threads :
        /\ th[t].pc = "ret"
        /\ th[t].op = "vote"
        /\ th[t].room # 0
        /\ heap[th[t].room].game_active
        /\ th[t].voter \in Range(heap[th[t].room].names)
        /\ heap[th[t].room].voted_today[th[t].voter]
        /\ th[t].vote_for \notin Range(heap[th[t].room].names)
        /\ th[t].resp.kind = "UnknownTarget"

====
